---- MODULE Spec2Model ----
(***************************************************************************)
(* Model of the real-estate listing normaliser                             *)
(*   service/app/normalize.py  (field parsers, normalize_listings)         *)
(*   service/app/models.py     (NormalizedListing schema)                  *)
(*   processor/processor.py    (batching client)                           *)
(*                                                                         *)
(* Text is a sequence of one-character strings.  A Python float is a       *)
(* record: a finite decimal m / 10^e (kept normalised, no trailing zero),  *)
(* or one of the non-finite values inf and nan.  Every modelled text is    *)
(* far shorter than the 309 digits at which float() overflows to inf, and  *)
(* has few enough decimals that the nearest double rounds like the exact   *)
(* decimal does.  An atom of a text is one character or one keyword.       *)
(***************************************************************************)
EXTENDS Integers, Sequences, FiniteSets, TLC

VARIABLES
    pc,         \* position of the running call / run
    pRaw,       \* parse_price: the argument
    pRes,       \* parse_price: what the call returned or raised
    sPrice,     \* compute_price_per_sqm: price
    sLiving,    \* compute_price_per_sqm: living
    sInterval,  \* compute_price_per_sqm: payment_interval
    sRes,       \* compute_price_per_sqm: the value returned
    raw_list,   \* service: the batch a caller submits
    today_year, \* service: date.today().year, the system clock
    calls,      \* service: the calls of normalize_listings made so far
    lines,      \* client: the records of the input file, one per line
    batch_size, \* client: --batch-size
    nread,      \* client: lines of the input consumed so far
    batch,      \* client: the records collected for the next request
    posted,     \* client: the batches submitted so far, in order
    resp,       \* client: the rest of the response being written out
    written,    \* client: the records written to the output file
    exit_status \* client: the exit status once the process has ended, else -1

priceVars == <<pRaw, pRes>>

sqmVars == <<sPrice, sLiving, sInterval, sRes>>

serviceVars == <<raw_list, today_year, calls>>

clientVars == <<lines, batch_size, nread, batch, posted, resp, written, exit_status>>

vars == <<pc, priceVars, sqmVars, serviceVars, clientVars>>

(***************************************************************************)
(* Bounds of the model.                                                    *)
(***************************************************************************)
MaxLen == 5
MaxNum == 3
MaxShort == 2
MaxBatch == 2
MaxYear == 3
MaxCalls == 2
MaxLines == 5
MaxBatchSize == 3

(***************************************************************************)
(* Python values.                                                          *)
(***************************************************************************)
Ok(v) == [ok |-> TRUE, v |-> v, exc |-> "none"]

Raise(e) == [ok |-> FALSE, v |-> 0, exc |-> e]

NoResult == [ok |-> FALSE, v |-> 0, exc |-> "pending"]

RECURSIVE Pow10(_)
Pow10(n) == IF n = 0 THEN 1 ELSE 10 * Pow10(n - 1)

RECURSIVE Fin(_, _)
Fin(m, e) ==
    IF e > 0 /\ m % 10 = 0 THEN Fin(m \div 10, e - 1)
    ELSE [k |-> "fin", m |-> m, e |-> e]

Inf == [k |-> "inf", m |-> 0, e |-> 0]

NaN == [k |-> "nan", m |-> 0, e |-> 0]

IntToFloat(n) == Fin(n, 0)

(***************************************************************************)
(* Text helpers (str methods and the regular expressions used).            *)
(***************************************************************************)
Digits == {"0", "1", "2", "3", "4", "5", "6", "7", "8", "9"}

DigitVal(c) ==
    CASE c = "0" -> 0 [] c = "1" -> 1 [] c = "2" -> 2 [] c = "3" -> 3
      [] c = "4" -> 4 [] c = "5" -> 5 [] c = "6" -> 6 [] c = "7" -> 7
      [] c = "8" -> 8 [] c = "9" -> 9

IsDigit(c) == c \in Digits

\* re.sub(r"[^\d\.,]", "", raw)
StripNonNumeric(s) == SelectSeq(s, LAMBDA c : IsDigit(c) \/ c = "." \/ c = ",")

\* c in s
Contains(s, c) == \E i \in 1..Len(s) : s[i] = c

\* s.find(c), 1-based; 0 when absent
Find(s, c) ==
    IF Contains(s, c) THEN CHOOSE i \in 1..Len(s) : s[i] = c /\ \A j \in 1..(i - 1) : s[j] # c
    ELSE 0

\* s.count(c)
Count(s, c) == Cardinality({i \in 1..Len(s) : s[i] = c})

\* s.replace(c, "")
Remove(s, c) == SelectSeq(s, LAMBDA x : x # c)

\* s.replace(c, d)
Replace(s, c, d) == [i \in 1..Len(s) |-> IF s[i] = c THEN d ELSE s[i]]

\* s.isdigit()
AllDigits(s) == Len(s) > 0 /\ \A i \in 1..Len(s) : IsDigit(s[i])

\* s.rfind(c), 1-based; 0 when absent
FindLast(s, c) ==
    IF Contains(s, c) THEN CHOOSE i \in 1..Len(s) : s[i] = c /\ \A j \in (i + 1)..Len(s) : s[j] # c
    ELSE 0

\* parts = s.split("."); "".join(parts[:-1]) + "." + parts[-1]
CollapseDots(s) ==
    LET last == FindLast(s, ".")
    IN Remove(SubSeq(s, 1, last - 1), ".") \o SubSeq(s, last, Len(s))

RECURSIVE DigitsValue(_)
DigitsValue(s) ==
    IF Len(s) = 0 THEN 0
    ELSE 10 * DigitsValue(SubSeq(s, 1, Len(s) - 1)) + DigitVal(s[Len(s)])

\* float(s) on a text of digits, '.' and ',': ValueError unless it is
\* digits with at most one '.', and at least one digit
FloatOfText(s) ==
    IF Contains(s, ",") \/ Count(s, ".") > 1 \/ ~(\E i \in 1..Len(s) : IsDigit(s[i]))
    THEN Raise("ValueError")
    ELSE LET dot  == Find(s, ".")
             ip   == IF dot = 0 THEN s ELSE SubSeq(s, 1, dot - 1)
             fp   == IF dot = 0 THEN <<>> ELSE SubSeq(s, dot + 1, Len(s))
         IN Ok(Fin(DigitsValue(ip) * Pow10(Len(fp)) + DigitsValue(fp), Len(fp)))

\* round(x) with exact ties rounded away from zero instead
RoundHalfAwayFromZero(x) ==
    LET p == Pow10(x.e)
        q == x.m \div p
        r == x.m % p
    IN IF 2 * r < p THEN q
       ELSE IF 2 * r > p THEN q + 1
       ELSE IF x.m >= 0 THEN q + 1 ELSE q

\* round(x) of a finite float: nearest integer, exact ties to the even one
RoundHalfEven(x) ==
    LET p == Pow10(x.e)
        q == x.m \div p
        r == x.m % p
    IN IF 2 * r < p THEN q
       ELSE IF 2 * r > p THEN q + 1
       ELSE IF q % 2 = 0 THEN q ELSE q + 1

\* int(round(x)): round(inf) raises OverflowError, round(nan) ValueError
IntRound(x) ==
    CASE x.k = "fin" -> Ok(RoundHalfEven(x))
      [] x.k = "nan" -> Raise("ValueError")
      [] OTHER       -> Raise("OverflowError")

(***************************************************************************)
(* parse_price                                                             *)
(***************************************************************************)
\* lines 35-45: which separator is the thousands separator
ResolveSeparators(s) ==
    IF Contains(s, ".") /\ Contains(s, ",")
    THEN IF Find(s, ",") < Find(s, ".")
         THEN Remove(s, ",")
         ELSE Replace(Remove(s, "."), ",", ".")
    ELSE IF Contains(s, ",")
    THEN LET c     == Find(s, ",")
             left  == SubSeq(s, 1, c - 1)
             right == SubSeq(s, c + 1, Len(s))
         IN IF Len(right) = 3 /\ AllDigits(right)
            THEN left \o right
            ELSE left \o <<".">> \o right
    ELSE s

CleanPrice(raw) ==
    LET s == ResolveSeparators(StripNonNumeric(raw))
    IN IF Count(s, ".") > 1 THEN CollapseDots(s) ELSE s

parse_price(raw) ==
    CASE raw.t = "int"   -> IntRound(IntToFloat(raw.n))
      [] raw.t = "float" -> IntRound(raw.x)
      [] OTHER ->
           LET f == FloatOfText(CleanPrice(raw.s))
           IN IF f.ok THEN IntRound(f.v)
              ELSE IF f.exc = "ValueError" THEN Ok(0)
              ELSE f

(***************************************************************************)
(* compute_price_per_sqm                                                   *)
(***************************************************************************)
\* str.lower() on an atom
LowerAtom(c) ==
    CASE c = "PER_YEAR" -> "per_year"
      [] c = "HOUSE" -> "house"
      [] c = "A" -> "a"
      [] c = "E" -> "e"
      [] OTHER -> c

Lower(s) == [i \in 1..Len(s) |-> LowerAtom(s[i])]

IsSpace(c) == c = " "

\* str.strip()
RECURSIVE Strip(_)
Strip(s) ==
    IF Len(s) = 0 THEN s
    ELSE IF IsSpace(s[1]) THEN Strip(Tail(s))
    ELSE IF IsSpace(s[Len(s)]) THEN Strip(SubSeq(s, 1, Len(s) - 1))
    ELSE s

\* raw or ""
OrEmpty(raw) == IF raw.t = "str" THEN raw.s ELSE <<>>

\* round(num / den, 2) for integers num and den > 0
Round2Div(num, den) ==
    LET q == (100 * num) \div den
        r == (100 * num) % den
    IN Fin(IF 2 * r < den THEN q
           ELSE IF 2 * r > den THEN q + 1
           ELSE IF q % 2 = 0 THEN q ELSE q + 1, 2)

\* num / den left unrounded (its first four decimals)
UnroundedDiv(num, den) == Fin((10000 * num) \div den, 4)

\* compute_price_per_sqm with every round(., 2) left out
PricePerSqmNoRound(price, living, payment_interval) ==
    IF living.m <= 0 THEN Fin(0, 0)
    ELSE LET interval == Lower(Strip(OrEmpty(payment_interval)))
         IN IF Contains(interval, "per_square_meter")
            THEN IF Len(interval) > 0 /\ interval[1] = "per_year"
                 THEN UnroundedDiv(price, 12)
                 ELSE IntToFloat(price)
            ELSE UnroundedDiv(price * Pow10(living.e), living.m)

\* compute_price_per_sqm dividing a per-unit-area rate by living as well
PricePerSqmDividesRate(price, living, payment_interval) ==
    IF living.m <= 0 THEN Fin(0, 0)
    ELSE LET interval == Lower(Strip(OrEmpty(payment_interval)))
         IN IF Contains(interval, "per_square_meter")
            THEN IF Len(interval) > 0 /\ interval[1] = "per_year"
                 THEN Round2Div(price * Pow10(living.e), 12 * living.m)
                 ELSE Round2Div(price * Pow10(living.e), living.m)
            ELSE Round2Div(price * Pow10(living.e), living.m)

\* living is a finite float m / 10^e
compute_price_per_sqm(price, living, payment_interval) ==
    IF living.m <= 0 THEN Fin(0, 0)
    ELSE LET interval == Lower(Strip(OrEmpty(payment_interval)))
         IN IF Contains(interval, "per_square_meter")
            THEN IF Len(interval) > 0 /\ interval[1] = "per_year"
                 THEN Round2Div(price, 12)
                 ELSE IntToFloat(price)
            ELSE Round2Div(price * Pow10(living.e), living.m)

(***************************************************************************)
(* The other field parsers.                                                *)
(***************************************************************************)
\* Optional[int]
NoneInt == [some |-> FALSE, v |-> 0]

Some(v) == [some |-> TRUE, v |-> v]

\* re.search(r"(\d+)", txt): the first run of digits, <<>> when there is none
FirstDigitRun(s) ==
    IF ~(\E i \in 1..Len(s) : IsDigit(s[i])) THEN <<>>
    ELSE LET b == CHOOSE i \in 1..Len(s) : IsDigit(s[i]) /\ \A j \in 1..(i - 1) : ~IsDigit(s[j])
             e == CHOOSE i \in b..Len(s) :
                      /\ \A j \in b..i : IsDigit(s[j])
                      /\ (i < Len(s) => ~IsDigit(s[i + 1]))
         IN SubSeq(s, b, e)

parse_floor(raw) ==
    CASE raw.t = "none" -> 0
      [] raw.t = "int"  -> raw.n
      [] OTHER ->
           LET m == FirstDigitRun(Lower(Strip(raw.s)))
           IN IF Len(m) > 0 THEN DigitsValue(m) ELSE 0

\* float(cleaned.replace(',', '.')) with ValueError giving 0.0
FloatOrZero(s) ==
    LET f == FloatOfText(Replace(StripNonNumeric(s), ",", "."))
    IN IF f.ok THEN f.v ELSE Fin(0, 0)

parse_rooms(raw) ==
    CASE raw.t = "none"  -> Fin(0, 0)
      [] raw.t = "int"   -> IntToFloat(raw.n)
      [] raw.t = "float" -> raw.x
      [] OTHER           -> FloatOrZero(raw.s)

parse_living_space(raw) ==
    CASE raw.t = "none"  -> Fin(0, 0)
      [] raw.t = "int"   -> IntToFloat(raw.n)
      [] raw.t = "float" -> raw.x
      [] OTHER           -> FloatOrZero(raw.s)

parse_additional_costs(raw) ==
    CASE raw.t = "none"  -> Fin(0, 0)
      [] raw.t = "int"   -> IntToFloat(raw.n)
      [] raw.t = "float" -> raw.x
      [] OTHER           -> FloatOrZero(raw.s)

map_category(raw) ==
    LET txt == Lower(Strip(OrEmpty(raw)))
    IN IF Contains(txt, "apartment") THEN "apartment"
       ELSE IF Contains(txt, "house") THEN "house"
       ELSE IF Contains(txt, "ground") THEN "ground"
       ELSE IF Contains(txt, "commercial") THEN "commercial"
       ELSE "other"

\* unicodedata.normalize("NFKD", raw): an accented letter becomes the letter
\* and a combining mark, written "'"
RECURSIVE Nfkd(_)
Nfkd(s) ==
    IF Len(s) = 0 THEN <<>>
    ELSE (IF s[1] = "É" THEN <<"E", "'">> ELSE <<s[1]>>) \o Nfkd(Tail(s))

IsCombining(c) == c = "'"

\* \w of the regular expressions
IsWord(c) == c \in {"a", "e", "A", "E", "_"} \/ IsDigit(c)

\* re.sub(r"\s+", " ", text)
RECURSIVE CollapseSpaces(_)
CollapseSpaces(s) ==
    IF Len(s) <= 1 THEN s
    ELSE IF IsSpace(s[1]) /\ IsSpace(s[2]) THEN CollapseSpaces(Tail(s))
    ELSE <<s[1]>> \o CollapseSpaces(Tail(s))

clean_text(raw) ==
    IF raw.t = "none" \/ Len(raw.s) = 0 THEN <<>>
    ELSE LET folded == SelectSeq(Nfkd(raw.s), LAMBDA c : ~IsCombining(c))
             low    == Lower(folded)
             spaced == [i \in 1..Len(low) |->
                           IF IsWord(low[i]) \/ IsSpace(low[i]) THEN low[i] ELSE " "]
         IN Strip(CollapseSpaces(spaced))

\* len(text.split())
WordCount(s) ==
    Cardinality({i \in 1..Len(s) : ~IsSpace(s[i]) /\ (i = 1 \/ IsSpace(s[i - 1]))})

\* the schema has already made the value a datetime, or None
parse_iso_datetime(raw) == raw

\* datetime.date()
DateOf(dt) == dt.n

\* int(raw) of a text: surrounding blanks and one sign allowed, then digits
IntOfText(s) ==
    LET u    == Strip(s)
        neg  == Len(u) > 0 /\ u[1] = "-"
        body == IF neg THEN Tail(u) ELSE u
    IN IF AllDigits(body)
       THEN Ok(IF neg THEN 0 - DigitsValue(body) ELSE DigitsValue(body))
       ELSE Raise("ValueError")

parse_build_year(raw) ==
    CASE raw.t = "none" -> NoneInt
      [] raw.t = "int"  -> Some(raw.n)
      [] OTHER ->
           LET r == IntOfText(raw.s)
           IN IF r.ok THEN Some(r.v) ELSE NoneInt

(***************************************************************************)
(* NormalizedListing and normalize_listings                                *)
(***************************************************************************)
\* the fields models.py declares
NormalizedFields ==
    {"price", "floor", "living_space", "propertyCategory", "title", "street",
     "price_per_sqm", "title_length", "title_word_count", "description_length",
     "description_word_count", "additional_costs", "build_year", "age",
     "days_since_published"}

\* NormalizedListing(**kwargs): a keyword that names no declared field is
\* ignored (pydantic's default for extra fields)
NormalizedListing(kwargs) == [f \in NormalizedFields |-> kwargs[f]]

\* (today.year - build_year) if build_year and today.year >= build_year else None
AgeOf(build_year, year) ==
    IF build_year.some /\ build_year.v # 0 /\ year >= build_year.v
    THEN Some(year - build_year.v)
    ELSE NoneInt

\* the body of the loop, lines 209-255, for one item
NormalizeItem(item, year) ==
    LET p == parse_price(item.price)
    IN IF ~p.ok THEN [ok |-> FALSE, exc |-> p.exc]
       ELSE
       LET price        == p.v
           living       == parse_living_space(item.living_space)
           title        == clean_text(item.title)
           desc         == clean_text(item.description)
           build_year   == parse_build_year(item.build_year)
           published_dt == parse_iso_datetime(item.published_datetime)
           crawl_dt     == parse_iso_datetime(item.crawl_datetime)
       IN [ok |-> TRUE,
           rec |-> NormalizedListing(
              [price |-> price,
               floor |-> parse_floor(item.floor),
               living_space |-> living,
               rooms |-> parse_rooms(item.rooms),
               propertyCategory |-> map_category(item.property_category),
               title |-> title,
               street |-> clean_text(item.property_location.street),
               price_per_sqm |-> compute_price_per_sqm(price, living, item.payment_interval),
               title_length |-> Len(title),
               title_word_count |-> WordCount(title),
               description_length |-> Len(desc),
               description_word_count |-> WordCount(desc),
               additional_costs |-> parse_additional_costs(item.additional_costs),
               build_year |-> build_year,
               age |-> AgeOf(build_year, year),
               days_since_published |->
                   IF published_dt.t # "none" /\ crawl_dt.t # "none"
                   THEN Some(DateOf(crawl_dt) - DateOf(published_dt))
                   ELSE NoneInt])]

Returned(out) == [ok |-> TRUE, out |-> out, exc |-> "none"]

Raised(e) == [ok |-> FALSE, out |-> <<>>, exc |-> e]

\* the for loop: an exception raised for one item ends the call
RECURSIVE NormalizeLoop(_, _, _, _)
NormalizeLoop(list, i, out, year) ==
    IF i > Len(list) THEN Returned(out)
    ELSE LET r == NormalizeItem(list[i], year)
         IN IF r.ok THEN NormalizeLoop(list, i + 1, Append(out, r.rec), year)
            ELSE Raised(r.exc)

normalize_listings(list, year) == NormalizeLoop(list, 1, <<>>, year)

(***************************************************************************)
(* Inputs.                                                                 *)
(***************************************************************************)
\* "x" stands for any character the regular expression strips
Alphabet == {"2", "5", ".", ",", "x"}

Texts == UNION {[1..n -> Alphabet] : n \in 0..MaxLen}

\* A loosely typed raw field: None, an int, a float or a str, tagged by t
NoneV == [t |-> "none", n |-> 0, x |-> Fin(0, 0), s |-> <<>>]

IntV(n) == [t |-> "int", n |-> n, x |-> Fin(0, 0), s |-> <<>>]

FloatV(x) == [t |-> "float", n |-> 0, x |-> x, s |-> <<>>]

StrV(s) == [t |-> "str", n |-> 0, x |-> Fin(0, 0), s |-> s]

Tenths == {Fin(k, 1) : k \in (-10 * MaxNum)..(10 * MaxNum)}

PriceInputs ==
    {IntV(n) : n \in (-MaxNum)..MaxNum}
    \cup {FloatV(x) : x \in Tenths \cup {Inf, NaN}}
    \cup {StrV(s) : s \in Texts}

\* A payment interval is a sequence of atoms: a keyword, or one character.
\* No two atoms run together spell a keyword.
IntervalAtoms == {"per_year", "per_square_meter", "PER_YEAR", "_", " "}

IntervalInputs ==
    {NoneV} \cup {StrV(s) : s \in UNION {[1..n -> IntervalAtoms] : n \in 0..MaxShort}}

SqmPrices == {n * k : n \in (-1)..MaxNum, k \in {1, 100}}

ShortTexts(A) == UNION {[1..n -> A] : n \in 0..MaxShort}

\* a datetime: the day it falls on and the hour of that day
DateTimeV(d, h) == [t |-> "datetime", n |-> d, x |-> Fin(h, 0), s |-> <<>>]

DateTimes == {DateTimeV(d, h) : d \in 0..MaxNum, h \in {0, 23}}

\* numbers with up to MaxLen - 2 decimals
DecimalTexts == UNION {[1..n -> {"2", "5", "."}] : n \in 0..(MaxLen - 1)}

BuildYearInputs ==
    {NoneV}
    \cup {IntV(n) : n \in (-MaxNum)..(MaxYear + 1)}
    \cup {StrV(s) : s \in ShortTexts({"0", "2", "-", " ", "x"})}

NumberInputs ==
    {NoneV}
    \cup {IntV(n) : n \in (-1)..MaxNum}
    \cup {FloatV(Fin(k, 1)) : k \in {-5, 5, 25}}
    \cup {StrV(s) : s \in ShortTexts(Alphabet)}

CategoryInputs ==
    {NoneV} \cup {StrV(s) : s \in ShortTexts({"apartment", "HOUSE", "ground", "commercial", "x"})}

FreeTextInputs == {NoneV} \cup {StrV(s) : s \in ShortTexts({"a", "É", "!", " "})}

\* a well-formed listing; the inputs vary it one field at a time
BaseListing ==
    [price |-> StrV(<<"x", "2", "5", "5">>),
     floor |-> NoneV,
     rooms |-> StrV(<<"2", ".", "5">>),
     living_space |-> StrV(<<"2", "x">>),
     property_category |-> StrV(<<"apartment">>),
     title |-> StrV(<<"a", " ", "É", "!">>),
     description |-> NoneV,
     crawl_datetime |-> DateTimeV(1, 0),
     published_datetime |-> NoneV,
     build_year |-> IntV(1),
     payment_interval |-> NoneV,
     additional_costs |-> NoneV,
     property_location |-> [street |-> NoneV]]

FieldVariations ==
    {[BaseListing EXCEPT !.price = v] :
        v \in {IntV(n) : n \in (-1)..MaxNum}
              \cup {FloatV(x) : x \in {Fin(5, 1), Fin(25, 1), Inf, NaN}}
              \cup {StrV(s) : s \in ShortTexts(Alphabet)}}
    \cup {[BaseListing EXCEPT !.floor = v] :
        v \in {NoneV} \cup {IntV(n) : n \in (-1)..MaxNum}
                      \cup {StrV(s) : s \in ShortTexts({"2", "5", "x", " "})}}
    \cup {[BaseListing EXCEPT !.rooms = v] : v \in NumberInputs}
    \cup {[BaseListing EXCEPT !.living_space = v] : v \in NumberInputs}
    \cup {[BaseListing EXCEPT !.property_category = v] : v \in CategoryInputs}
    \cup {[BaseListing EXCEPT !.title = v] : v \in FreeTextInputs}
    \cup {[BaseListing EXCEPT !.description = v] : v \in FreeTextInputs}
    \cup {[BaseListing EXCEPT !.property_location = [street |-> v]] : v \in FreeTextInputs}
    \cup {[BaseListing EXCEPT !.crawl_datetime = c, !.published_datetime = q] :
        c \in DateTimes, q \in {NoneV} \cup DateTimes}
    \cup {[BaseListing EXCEPT !.build_year = v] : v \in BuildYearInputs}
    \cup {[BaseListing EXCEPT !.payment_interval = v] : v \in IntervalInputs}
    \cup {[BaseListing EXCEPT !.additional_costs = v] :
        v \in {NoneV} \cup {StrV(s) : s \in DecimalTexts}
                      \cup {StrV(s) : s \in ShortTexts(Alphabet)}}

\* listings that batches of several records are made of
CoreListings ==
    {BaseListing,
     [BaseListing EXCEPT !.price = IntV(0), !.living_space = NoneV, !.build_year = NoneV],
     [BaseListing EXCEPT !.price = FloatV(Inf)],
     [BaseListing EXCEPT !.price = StrV(<<"2", ",", "5">>), !.build_year = StrV(<<"2">>),
                         !.payment_interval = StrV(<<"per_year", "per_square_meter">>)],
     [BaseListing EXCEPT !.title = NoneV, !.build_year = IntV(0),
                         !.additional_costs = StrV(<<"2", ".", "5", "5", "5">>)]}

Batches ==
    {<<r>> : r \in FieldVariations}
    \cup UNION {[1..n -> CoreListings] : n \in 0..MaxBatch}

(***************************************************************************)
(* Variables a specification does not use stay at these values.            *)
(***************************************************************************)
IdlePrice == pRaw = NoneV /\ pRes = NoResult

IdleSqm == sPrice = 0 /\ sLiving = Fin(0, 0) /\ sInterval = NoneV /\ sRes = NaN

IdleService == raw_list = <<>> /\ today_year = 1 /\ calls = <<>>

IdleClient ==
    /\ lines = <<>> /\ batch_size = 1 /\ nread = 0 /\ batch = <<>>
    /\ posted = <<>> /\ resp = <<>> /\ written = <<>> /\ exit_status = -1

(***************************************************************************)
(* SpecPrice: one call of parse_price on any admitted price.               *)
(***************************************************************************)
InitPrice ==
    /\ pc = "call"
    /\ pRaw \in PriceInputs
    /\ pRes = NoResult
    /\ IdleSqm
    /\ IdleService
    /\ IdleClient

CallParsePrice ==
    /\ pc = "call"
    /\ pRes' = parse_price(pRaw)
    /\ pc' = "ret"
    /\ UNCHANGED <<pRaw, sqmVars, serviceVars, clientVars>>

NextPrice == CallParsePrice

SpecPrice == InitPrice /\ [][NextPrice]_vars

(***************************************************************************)
(* SpecSqm: one call of compute_price_per_sqm.                             *)
(***************************************************************************)
InitSqm ==
    /\ pc = "call"
    /\ sPrice \in SqmPrices
    /\ sLiving \in Tenths
    /\ sInterval \in IntervalInputs
    /\ sRes = NaN
    /\ IdlePrice
    /\ IdleService
    /\ IdleClient

CallPricePerSqm ==
    /\ pc = "call"
    /\ sRes' = compute_price_per_sqm(sPrice, sLiving, sInterval)
    /\ pc' = "ret"
    /\ UNCHANGED <<sPrice, sLiving, sInterval, priceVars, serviceVars, clientVars>>

NextSqm == CallPricePerSqm

SpecSqm == InitSqm /\ [][NextSqm]_vars

(***************************************************************************)
(* Spec: the normalisation service.  Callers submit the batch raw_list to  *)
(* normalize_endpoint, which returns normalize_listings(raw_list); the     *)
(* system clock moves on between calls.                                    *)
(***************************************************************************)
Init ==
    /\ pc = "serving"
    /\ raw_list \in Batches
    /\ today_year \in 1..MaxYear
    /\ calls = <<>>
    /\ IdlePrice
    /\ IdleSqm
    /\ IdleClient

\* one request: out = [], today = date.today(), the loop, return out
NormalizeEndpoint ==
    /\ pc = "serving"
    /\ Len(calls) < MaxCalls
    /\ calls' = Append(calls, [year |-> today_year,
                               ret  |-> normalize_listings(raw_list, today_year)])
    /\ UNCHANGED <<pc, raw_list, today_year, priceVars, sqmVars, clientVars>>

\* the calendar year changes
NewYear ==
    /\ pc = "serving"
    /\ today_year < MaxYear
    /\ today_year' = today_year + 1
    /\ UNCHANGED <<pc, raw_list, calls, priceVars, sqmVars, clientVars>>

Next == NormalizeEndpoint \/ NewYear

Spec == Init /\ [][Next]_vars

(***************************************************************************)
(* SpecClient: processor.normalize reading a file of records and posting   *)
(* them in batches.  The endpoint answers a successful request with one    *)
(* record per submitted record, in the same order.                         *)
(***************************************************************************)
\* str(n) of an integer n >= 0
RECURSIVE IntText(_)
IntText(n) ==
    LET d == CHOOSE c \in Digits : DigitVal(c) = n % 10
    IN IF n < 10 THEN <<d>> ELSE Append(IntText(n \div 10), d)

\* str(v) of a non-negative number
PyStr(raw) ==
    CASE raw.t = "int" -> StrV(IntText(raw.n))
      [] raw.t = "float" ->
           LET p  == Pow10(raw.x.e)
               fr == IntText(p + (raw.x.m % p))
           IN StrV(IntText(raw.x.m \div p) \o <<".">>
                       \o (IF raw.x.e = 0 THEN <<"0">> ELSE Tail(fr)))
      [] OTHER -> raw

\* lines 67-70: additional_costs and plot_area are sent as text
Prepare(record) ==
    [record EXCEPT
        !.additional_costs = IF @.t # "none" THEN PyStr(@) ELSE @,
        !.plot_area = IF @.t # "none" THEN PyStr(@) ELSE @]

\* what the endpoint returns for one submitted record
ResultFor(record) == [normalized |-> record]

Response(b) == [i \in 1..Len(b) |-> ResultFor(b[i])]

InputLine(i) ==
    [id |-> i,
     additional_costs |-> CASE i % 3 = 0 -> NoneV
                            [] i % 3 = 1 -> IntV(10 * i)
                            [] OTHER     -> FloatV(Fin(25, 1)),
     plot_area |-> IF i % 2 = 0 THEN NoneV ELSE StrV(<<"5">>)]

InitClient ==
    /\ pc = "read"
    /\ \E n \in 0..MaxLines : lines = [i \in 1..n |-> InputLine(i)]
    /\ batch_size \in 1..MaxBatchSize
    /\ nread = 0
    /\ batch = <<>>
    /\ posted = <<>>
    /\ resp = <<>>
    /\ written = <<>>
    /\ exit_status = -1
    /\ IdlePrice
    /\ IdleSqm
    /\ IdleService

\* one turn of "for line in fin" up to the test of len(batch)
ReadLine ==
    /\ pc = "read"
    /\ nread < Len(lines)
    /\ nread' = nread + 1
    /\ batch' = Append(batch, Prepare(lines[nread + 1]))
    /\ pc' = IF Len(batch') >= batch_size THEN "post" ELSE "read"
    /\ UNCHANGED <<lines, batch_size, posted, resp, written, exit_status>>
    /\ UNCHANGED <<priceVars, sqmVars, serviceVars>>

\* the end of the loop without the "if batch:" that posts what is left
EndOfFileNoFlush ==
    /\ pc = "read"
    /\ nread = Len(lines)
    /\ pc' = "done"
    /\ exit_status' = 0
    /\ UNCHANGED <<lines, batch_size, nread, batch, posted, resp, written>>
    /\ UNCHANGED <<priceVars, sqmVars, serviceVars>>

\* the loop is over: "if batch:" posts what is left, else the run is done
EndOfFile ==
    /\ pc = "read"
    /\ nread = Len(lines)
    /\ IF Len(batch) > 0
       THEN pc' = "post_last" /\ UNCHANGED exit_status
       ELSE pc' = "done" /\ exit_status' = 0
    /\ UNCHANGED <<lines, batch_size, nread, batch, posted, resp, written>>
    /\ UNCHANGED <<priceVars, sqmVars, serviceVars>>

\* post_batch up to the status check: requests.post, then sys.exit(1) on a
\* status other than 200
PostBatch ==
    /\ pc \in {"post", "post_last"}
    /\ posted' = Append(posted, batch)
    /\ \E status \in {200, 500} :
         IF status # 200
         THEN /\ exit_status' = 1
              /\ pc' = "exit"
              /\ UNCHANGED resp
         ELSE /\ resp' = Response(batch)
              /\ pc' = IF pc = "post" THEN "write" ELSE "write_last"
              /\ UNCHANGED exit_status
    /\ UNCHANGED <<lines, batch_size, nread, batch, written>>
    /\ UNCHANGED <<priceVars, sqmVars, serviceVars>>

\* one turn of "for rec in resp.json(): fout.write(...)"
WriteRecord ==
    /\ pc \in {"write", "write_last"}
    /\ Len(resp) > 0
    /\ written' = Append(written, Head(resp))
    /\ resp' = Tail(resp)
    /\ UNCHANGED <<pc, lines, batch_size, nread, batch, posted, exit_status>>
    /\ UNCHANGED <<priceVars, sqmVars, serviceVars>>

\* post_batch returns: batch.clear() in the loop, the end after the loop
BatchDone ==
    /\ pc \in {"write", "write_last"}
    /\ Len(resp) = 0
    /\ IF pc = "write"
       THEN pc' = "read" /\ batch' = <<>> /\ UNCHANGED exit_status
       ELSE pc' = "done" /\ exit_status' = 0 /\ UNCHANGED batch
    /\ UNCHANGED <<lines, batch_size, nread, posted, resp, written>>
    /\ UNCHANGED <<priceVars, sqmVars, serviceVars>>

NextClient == ReadLine \/ EndOfFile \/ PostBatch \/ WriteRecord \/ BatchDone

SpecClient == InitClient /\ [][NextClient]_vars

(***************************************************************************)
(* Claims about parse_price, under SpecPrice.                               *)
(***************************************************************************)
\* C2: parse_price never raises: whatever price the schema admits, the call
\* returns an integer, and that integer is 0 when the cleaned text is no
\* number.
C2_NeverRaises ==
    pc = "ret" =>
        /\ pRes.ok
        /\ (pRaw.t = "str" /\ ~FloatOfText(CleanPrice(pRaw.s)).ok) => pRes.v = 0

\* The separator rule as C3 words it, applied to the stripped text: with both
\* separators every occurrence of the one met first is removed and the other
\* is the decimal point; with commas only, a comma followed by exactly three
\* digits is removed and any other comma is a decimal point; of several
\* decimal points only the last one stays.
StatedThousands(s, i) ==
    /\ i + 3 <= Len(s)
    /\ \A j \in (i + 1)..(i + 3) : IsDigit(s[j])
    /\ (i + 4 <= Len(s) => ~IsDigit(s[i + 4]))

StatedSeparators(s) ==
    IF Contains(s, ".") /\ Contains(s, ",")
    THEN IF Find(s, ",") < Find(s, ".")
         THEN Remove(s, ",")
         ELSE Replace(Remove(s, "."), ",", ".")
    ELSE LET marked == [i \in 1..Len(s) |->
                           IF s[i] # "," THEN s[i]
                           ELSE IF StatedThousands(s, i) THEN "drop" ELSE "."]
         IN Remove(marked, "drop")

StatedPrice(raw) ==
    LET s == StatedSeparators(StripNonNumeric(raw))
        c == IF Count(s, ".") > 1 THEN CollapseDots(s) ELSE s
        f == FloatOfText(c)
    IN IF f.ok THEN RoundHalfEven(f.v) ELSE 0

\* C3: on textual input the result is the number the stated separator rule
\* yields, rounded to the nearest integer.
C3_SeparatorRule ==
    (pc = "ret" /\ pRaw.t = "str") => pRes = Ok(StatedPrice(pRaw.s))

\* A price that lies exactly half way between the integers n and n + 1:
\* the float n + 0.5, or the text "<digits of n>.5".
TieText(s) ==
    /\ Len(s) >= 3
    /\ s[Len(s)] = "5"
    /\ s[Len(s) - 1] = "."
    /\ AllDigits(SubSeq(s, 1, Len(s) - 2))

IsTie(raw) ==
    \/ raw.t = "float" /\ raw.x.k = "fin" /\ raw.x.e = 1 /\ raw.x.m % 10 = 5
    \/ raw.t = "str" /\ TieText(raw.s)

TieFloor(raw) ==
    IF raw.t = "float" THEN raw.x.m \div 10
    ELSE DigitsValue(SubSeq(raw.s, 1, Len(raw.s) - 2))

\* C4 (as amended): a price of n + 0.5, numeric or textual, is rounded to the
\* even one of n and n + 1.
C4_TiesToEven ==
    (pc = "ret" /\ IsTie(pRaw)) =>
        /\ pRes.ok
        /\ pRes.v \in {TieFloor(pRaw), TieFloor(pRaw) + 1}
        /\ pRes.v % 2 = 0

\* C4 witness: the text "2.5" was parsed, and the result is 2.
C4_Witness ==
    /\ pc = "ret"
    /\ pRaw = StrV(<<"2", ".", "5">>)
    /\ pRes = Ok(2)

\* C4 (as stated): for every n >= 0 a price of n + 0.5 yields n + 1.
C4_TiesAwayFromZero ==
    (pc = "ret" /\ IsTie(pRaw) /\ TieFloor(pRaw) >= 0) =>
        pRes = Ok(TieFloor(pRaw) + 1)

(***************************************************************************)
(* Claims about compute_price_per_sqm, under SpecSqm.                       *)
(***************************************************************************)
\* the interval names a per-unit-area rate
PerArea(raw) ==
    raw.t = "str" /\ \E i \in 1..Len(raw.s) : LowerAtom(raw.s[i]) = "per_square_meter"

\* the interval, blanks aside, begins with the annual cadence
Annual(raw) ==
    /\ raw.t = "str"
    /\ \E i \in 1..Len(raw.s) :
         /\ LowerAtom(raw.s[i]) = "per_year"
         /\ \A j \in 1..(i - 1) : raw.s[j] = " "

\* x is a float of at most two decimals, and of all such floats one nearest
\* to num / den (den > 0)
NearestHundredth(x, num, den) ==
    /\ x.k = "fin"
    /\ x.e <= 2
    /\ LET h == x.m * Pow10(2 - x.e)
           d == 100 * num - h * den
       IN 2 * d <= den /\ 2 * (0 - d) <= den

\* C9: 0.0 whenever living <= 0; for living > 0 and a per-unit-area interval
\* the price itself, divided by 12 and rounded to 2 decimals when the interval
\* is annual, whatever living is; otherwise price / living rounded to 2
\* decimals.
C9_PricePerSqm ==
    pc = "ret" =>
        IF sLiving.m <= 0 THEN sRes = Fin(0, 0)
        ELSE IF PerArea(sInterval) /\ Annual(sInterval)
             THEN NearestHundredth(sRes, sPrice, 12)
        ELSE IF PerArea(sInterval) THEN sRes = IntToFloat(sPrice)
        ELSE NearestHundredth(sRes, sPrice * Pow10(sLiving.e), sLiving.m)

\* C9 witness: an annual per-unit-area price of 100 with living 2.5 gave 8.33.
C9_Witness ==
    /\ pc = "ret"
    /\ sPrice = 100
    /\ sLiving = Fin(25, 1)
    /\ sInterval = StrV(<<"PER_YEAR", "per_square_meter">>)
    /\ sRes = Fin(833, 2)

(***************************************************************************)
(* Claims about normalize_listings, under Spec.                            *)
(***************************************************************************)
\* C1: every call returns a list as long as the batch, whose i-th element is
\* the normalization of the i-th record alone.
C1_OneToOne ==
    \A k \in 1..Len(calls) :
        /\ calls[k].ret.ok
        /\ Len(calls[k].ret.out) = Len(raw_list)
        /\ \A i \in 1..Len(raw_list) :
             calls[k].ret.out[i] = normalize_listings(<<raw_list[i]>>, calls[k].year).out[1]

\* C5: age is null exactly when build_year is null or later than the
\* reference year, and is the reference year minus build_year otherwise, for
\* every integer build_year, 0 and negative ones included.
C5_Age ==
    \A k \in 1..Len(calls) : \A i \in 1..Len(calls[k].ret.out) :
        LET r == calls[k].ret.out[i]
        IN IF ~r.build_year.some \/ r.build_year.v > calls[k].year
           THEN r.age = NoneInt
           ELSE r.age = Some(calls[k].year - r.build_year.v)

\* the fields of the canonical schema
CanonicalFields ==
    {"price", "floor", "living_space", "rooms", "propertyCategory", "title",
     "street", "price_per_sqm", "title_length", "title_word_count",
     "description_length", "description_word_count", "additional_costs",
     "build_year", "age", "days_since_published"}

\* C6: every record returned carries every field of the canonical schema, and
\* its rooms field is parse_rooms of the raw rooms value.
C6_AllFields ==
    \A k \in 1..Len(calls) : \A i \in 1..Len(calls[k].ret.out) :
        /\ DOMAIN calls[k].ret.out[i] = CanonicalFields
        /\ calls[k].ret.out[i].rooms = parse_rooms(raw_list[i].rooms)

\* C7: two calls on the same batch return equal outputs, whatever the system
\* date at each call.
C7_Pure ==
    \A j \in 1..Len(calls) : \A k \in 1..Len(calls) : calls[j].ret = calls[k].ret

\* a text that spells a decimal number: digits, one '.', digits not ending in 0
PlainDecimal(s) ==
    /\ Count(s, ".") = 1
    /\ s[Len(s)] \in Digits \ {"0"}
    /\ \A i \in 1..Len(s) : IsDigit(s[i]) \/ s[i] = "."

\* C8 (as amended): price_per_sqm is rounded to 2 decimals; additional_costs
\* is the number its text spells, with every decimal the text has.
C8_Rounding ==
    \A k \in 1..Len(calls) : \A i \in 1..Len(calls[k].ret.out) :
        LET r   == calls[k].ret.out[i]
            raw == raw_list[i].additional_costs
        IN /\ r.price_per_sqm.k = "fin" /\ r.price_per_sqm.e <= 2
           /\ (raw.t = "str" /\ PlainDecimal(raw.s)) =>
                  /\ r.additional_costs.k = "fin"
                  /\ r.additional_costs.e = Len(raw.s) - Find(raw.s, ".")
                  /\ r.additional_costs.m = DigitsValue(Remove(raw.s, "."))

\* C8 witness: additional_costs "2.555" came out as 2.555, beside a
\* price_per_sqm of 127.5.
C8_Witness ==
    /\ Len(calls) > 0
    /\ Len(raw_list) = 1
    /\ raw_list[1].additional_costs = StrV(<<"2", ".", "5", "5", "5">>)
    /\ calls[1].ret.ok
    /\ calls[1].ret.out[1].additional_costs = Fin(2555, 3)
    /\ calls[1].ret.out[1].price_per_sqm = Fin(1275, 1)

\* C8 (as stated): price_per_sqm and additional_costs both have at most 2
\* decimals.
C8_BothRounded ==
    \A k \in 1..Len(calls) : \A i \in 1..Len(calls[k].ret.out) :
        /\ calls[k].ret.out[i].price_per_sqm.e <= 2
        /\ calls[k].ret.out[i].additional_costs.e <= 2

(***************************************************************************)
(* Claims about the batch client, under SpecClient.                        *)
(***************************************************************************)
RECURSIVE Flatten(_)
Flatten(bs) == IF Len(bs) = 0 THEN <<>> ELSE Head(bs) \o Flatten(Tail(bs))

\* the first n lines of the input, as the client submits them
Submitted(n) == [i \in 1..n |-> Prepare(lines[i])]

\* C10: every line goes into exactly one batch, batches go out in input order
\* and hold batch_size records except possibly the last, what is left at the
\* end of the input is flushed, the output always holds the results for a
\* prefix of the input in order, and a request that fails ends the run with
\* status 1 before any record of its batch is written.
C10_Batching ==
    LET sent == Flatten(posted)
    IN /\ Len(sent) <= nread
       /\ sent = Submitted(Len(sent))
       /\ \A b \in 1..Len(posted) :
            /\ Len(posted[b]) \in 1..batch_size
            /\ Len(posted[b]) < batch_size => (b = Len(posted) /\ nread = Len(lines))
       /\ Len(written) <= Len(sent)
       /\ written = Response(Submitted(Len(written)))
       /\ pc = "done" =>
            /\ exit_status = 0
            /\ sent = Submitted(Len(lines))
            /\ written = Response(sent)
       /\ pc = "exit" =>
            /\ exit_status = 1
            /\ written = Response(Flatten(SubSeq(posted, 1, Len(posted) - 1)))
       /\ exit_status # -1 <=> pc \in {"done", "exit"}

\* C10 witness: five lines in batches of two: the run is done after three
\* requests, the last one carrying the single line left over.
C10_Witness ==
    /\ pc = "done"
    /\ Len(lines) = 5
    /\ batch_size = 2
    /\ Len(posted) = 3
    /\ Len(posted[3]) = 1
    /\ Len(written) = 5

====
